---- MODULE Spec2Model ----
(***************************************************************************)
(* k8s.py: a single-threaded deployment script.  main() calls a fixed      *)
(* sequence of stage functions inside one try block; stages issue shell    *)
(* commands through run_shell and wait for pod convergence in polling      *)
(* loops (k8s_wait_for_running_negate, k8s_wait_for_running,               *)
(* k8s_wait_for_kube_system).                                              *)
(*                                                                         *)
(* Spec      the run of main(): one action per statement kind of a stage.  *)
(* SpecWait  each of the three wait functions called on its own, with the  *)
(*           timeouts and intervals of the source.                         *)
(***************************************************************************)
EXTENDS Integers, Sequences, FiniteSets, TLC

(***************************************************************************)
(* Program constants                                                       *)
(***************************************************************************)
NEGATE_TIMEOUT == 1000
NEGATE_RETRY_INTERVAL == 2
RUNNING_TIMEOUT == 1000
RUNNING_RETRY_INTERVAL == 10
KUBE_SYSTEM_TIMEOUT == 350
KUBE_SYSTEM_RETRY_INTERVAL == 10
KUBE_SYSTEM_PODS == 6
HELM_VERSION_LINES == 2
HELM_IMAGES_MIN == 180
CHECK_EXIT_CODE == 1
VERIFY_EXIT_CODE == 1
UNCAUGHT_EXIT_CODE == 1
SUCCESS_EXIT_CODE == 0

(***************************************************************************)
(* Bounds of the model                                                     *)
(***************************************************************************)
\* largest exit status an external command returns
MaxExit == 1
\* largest pod count a probe reports while main() runs
MaxPodsMain == 2
\* probes one wait of main() may make before the model stops following it
MaxProbesMain == 3
\* largest pod count a probe reports when a wait function runs on its own
MaxObs == 8
\* largest `number` argument of k8s_wait_for_running
MaxNumber == 6
\* elapsed_time up to which a wait function running on its own is followed
MaxElapsed == 1006
\* iterations of the helm version loop the model follows
MaxHelmPolls == 2

NoExit == 0 - 1

(***************************************************************************)
(* Python values.  A str holding the decimal text of n (as `wc -l` prints  *)
(* it) is <<"str", n>>; the int n is <<"int", n>>.  In Python 2 a str and  *)
(* an int never compare equal.                                             *)
(***************************************************************************)
PyStr(n) == <<"str", n>>
PyIntLit(n) == <<"int", n>>
\* the str of an empty stdout
EmptyStr == <<"empty", 0>>
\* int(s) for the text of a decimal number
PyInt(s) == s[2]
\* int(s) raises ValueError for any other text
IntRaises(s) == s[1] # "str"
\* a != b
PyNe(a, b) == a # b

(***************************************************************************)
(* The stages of main() in call order.  A stage body is the sequence of    *)
(* its statements:                                                         *)
(*   cmd      a run_shell call                                             *)
(*   py       a Python-level operation that can raise (open, os.environ,   *)
(*            os.makedirs, curl's Popen, tarfile)                          *)
(*   opt      a block of run_shell calls under a condition on the host     *)
(*   cleanup  the body of k8s_cleanup(doit)                                *)
(*   wait     a call of k8s_wait_for_running_negate                        *)
(*   helmloop the helm version loop of kolla_install_deploy_helm           *)
(*   exit     the body of k8s_check_exit(k8s_only)                         *)
(*   verify   the body of kolla_verify_helm_images                         *)
(***************************************************************************)
Cmds(n) == [i \in 1..n |-> "cmd"]

Stage(n, b) == [name |-> n, body |-> b]

\* the chart lists of main(), in the order main() passes them on
ChartLists ==
    << << "mariadb" >>,
       << "rabbitmq", "memcached", "keystone", "glance", "cinder-control",
          "horizon", "openvswitch", "neutron" >>,
       << "nova-control", "nova-compute" >>,
       << "nova-cell0-create-db-job", "nova-api-create-simple-cell-job" >> >>

\* faulty variant: the installs of a list are not followed by a wait
HelmInstallNoWait(n, chart_list) == Stage(n, Cmds(Len(chart_list)))

\* helm_install_service_chart / helm_install_micro_service_chart: one helm
\* install per chart of the list, then k8s_wait_for_running_negate()
HelmInstall(n, chart_list) == Stage(n, Cmds(Len(chart_list)) \o <<"wait">>)

Pipeline ==
    << Stage("k8s_install_tools", Cmds(4)),
       Stage("k8s_cleanup", <<"cleanup">>),
       Stage("k8s_turn_things_off", <<"cmd", "cmd", "opt">>),
       Stage("k8s_install_k8s", <<"cmd", "py", "cmd", "cmd", "opt">>),
       Stage("k8s_setup_dns", Cmds(6)),
       Stage("k8s_reload_service_files", Cmds(1)),
       Stage("k8s_start_kubelet", Cmds(2)),
       Stage("k8s_fix_iptables", <<"cmd", "cmd", "py", "opt">>),
       Stage("k8s_deploy_k8s", Cmds(1)),
       Stage("k8s_load_kubeadm_creds", <<"py", "cmd", "cmd", "cmd">>),
       Stage("k8s_wait_for_running_negate", <<"wait">>),
       Stage("k8s_deploy_canal_sdn",
             <<"py", "cmd", "py", "cmd", "cmd", "cmd", "cmd">>),
       Stage("k8s_wait_for_running_negate", <<"wait">>),
       Stage("k8s_schedule_master_node", Cmds(1)),
       Stage("k8s_pause_to_check_nslookup",
             <<"py", "cmd", "wait", "cmd", "cmd">>),
       Stage("k8s_check_exit", <<"exit">>),
       Stage("kolla_update_rbac", <<"py", "cmd">>),
       Stage("kolla_install_deploy_helm",
             <<"py", "py", "cmd", "cmd", "wait", "helmloop">>),
       Stage("kolla_install_repos",
             <<"opt", "cmd", "opt", "cmd", "cmd", "cmd", "cmd">>),
       Stage("kolla_gen_passwords", Cmds(1)),
       Stage("kolla_create_namespace", Cmds(1)),
       Stage("k8s_label_nodes", Cmds(2)),
       Stage("kolla_modify_globals", Cmds(5)),
       Stage("kolla_add_to_globals", <<"py", "cmd">>),
       Stage("kolla_enable_qemu", <<"cmd", "py", "cmd">>),
       Stage("kolla_gen_configs", Cmds(3)),
       Stage("kolla_gen_secrets", Cmds(1)),
       Stage("kolla_create_config_maps", Cmds(1)),
       Stage("kolla_resolve_workaround", Cmds(1)),
       Stage("kolla_build_micro_charts", Cmds(1)),
       Stage("kolla_verify_helm_images", <<"verify">>),
       Stage("kolla_create_and_run_cloud", <<"py", "cmd", "cmd", "cmd">>),
       HelmInstall("helm_install_service_chart", ChartLists[1]),
       HelmInstall("helm_install_service_chart", ChartLists[2]),
       HelmInstall("helm_install_service_chart", ChartLists[3]),
       HelmInstall("helm_install_micro_service_chart", ChartLists[4]),
       Stage("k8s_get_pods", Cmds(2)),
       Stage("kolla_create_keystone_admin", Cmds(5)) >>

NSteps == Len(Pipeline)

\* the position of the only stage of that name
StepOf(n) == CHOOSE i \in 1..NSteps : Pipeline[i].name = n

\* the chart list main() passes to stage s, <<>> when s installs no charts
ChartListOf(s) ==
    LET g == s - StepOf("kolla_create_and_run_cloud") IN
    IF g \in 1..Len(ChartLists) THEN ChartLists[g] ELSE <<>>

VARIABLES
    cleanup,          \* args.cleanup
    k8s_only,         \* args.kubernetes
    step,             \* the stage main() is in; NSteps+1: the try block is done;
                      \* 0: a wait function called on its own
    op,               \* the statement of that stage to run next
    wkind,            \* the wait function that is running, or "none"
    wstatus,          \* "idle", "polling", "ok" (returned), "abort" (raised
                      \* AbortScriptException), "raised" (raised another one)
    number,           \* argument of k8s_wait_for_running
    elapsed_time,     \* local of the wait functions
    prev_not_running, \* local of k8s_wait_for_running_negate
    last_out,         \* output of the last probe (not_running, running, pod_status)
    probes,           \* probes made by the running wait
    probe_failed,     \* whether kubectl errored in the last probe
    decreasing,       \* whether every probe so far reported less than the one before
    prev_out,         \* output of the probe before the last one
    progress,         \* whether the last iteration printed its progress line
    sleeps,           \* calls of time.sleep made by the running wait
    helm_polls,       \* unsuccessful iterations of the helm version loop
    exc,              \* the exception propagating, or NoExc
    reported,         \* whether the except clause of main() has printed it
    report,           \* what the except clause printed
    exit_code,        \* exit status of the process, NoExit while it runs
    invoked,          \* the stages called so far, in call order
    installed,        \* the charts a helm install was issued for, in order
    chart_waits,      \* waits that returned to a chart install function
    cmd_failed_step,  \* the first stage in which a command exited non-zero, or 0
    teardown,         \* times the teardown commands of k8s_cleanup were executed
    before_teardown   \* the stages that had been called when teardown first ran

vars == << cleanup, k8s_only, step, op, wkind, wstatus, number, elapsed_time,
           prev_not_running, last_out, probes, probe_failed, decreasing,
           prev_out, progress, sleeps,
           helm_polls, exc, reported, report, exit_code, invoked, installed,
           chart_waits,
           cmd_failed_step, teardown, before_teardown >>

argVars == << cleanup, k8s_only >>
waitVars == << wkind, wstatus, number, elapsed_time, prev_not_running, last_out,
               probes, probe_failed, decreasing, prev_out, progress, sleeps >>
endVars == << exc, reported, report, exit_code >>

(***************************************************************************)
(* run_shell: p is the finished child process, [status, stdout].  The exit *)
(* status is never read; stdout is returned whatever it is.                *)
(***************************************************************************)
\* An exception value: its type, the code of a SystemExit, and its traceback
\* tb, kept as the stage of main() whose frame raised it.
NoExc == [type |-> "none", code |-> 0, tb |-> 0]
Raise(t) == [type |-> t, code |-> 0, tb |-> step]
\* sys.exit(c)
SystemExit(c) == [type |-> "SystemExit", code |-> c, tb |-> step]
\* what `except Exception` catches: SystemExit is not an Exception
IsException(e) == e.type \in {"Exception", "AbortScriptException", "ValueError"}

run_shell(p) == [exc |-> NoExc, out |-> p.stdout]

\* `kubectl get pods ... | grep [-v] "Running" | wc -l`: when kubectl errors it
\* prints no pod line, and wc still prints a count (0) and exits 0.
CountProbe(kubectl_ok, n) ==
    [status |-> 0, stdout |-> PyStr(IF kubectl_ok THEN n ELSE 0)]

\* the shell could not run the pipeline to its `wc -l`: nothing on stdout
EmptyProbe == [status |-> 127, stdout |-> EmptyStr]

ExitStatuses == 0..MaxExit
Pods == IF step = 0 THEN 0..MaxObs ELSE 0..MaxPodsMain

InMain == step \in 1..NSteps
CurOp == IF InMain THEN Pipeline[step].body[op] ELSE "none"
Running == InMain /\ exc = NoExc /\ exit_code = NoExit

\* the value of last_out before the first probe of a wait
NoOut == <<"none", 0>>

WaitIdle ==
    /\ wkind' = "none" /\ wstatus' = "idle" /\ number' = 0
    /\ elapsed_time' = 0 /\ prev_not_running' = PyIntLit(0) /\ last_out' = NoOut
    /\ probes' = 0 /\ probe_failed' = FALSE /\ decreasing' = TRUE
    /\ prev_out' = NoOut /\ progress' = FALSE /\ sleeps' = 0

\* entering a wait function: its locals before the loop
WaitEntry(kind, n) ==
    /\ wkind' = kind /\ wstatus' = "polling" /\ number' = n
    /\ elapsed_time' = 0 /\ prev_not_running' = PyIntLit(0) /\ last_out' = NoOut
    /\ probes' = 0 /\ probe_failed' = FALSE /\ decreasing' = TRUE
    /\ prev_out' = NoOut /\ progress' = FALSE /\ sleeps' = 0

\* faulty variant: a stage is left after its first statement
NextPosLeavesEarly == <<step + 1, 1>>

\* the statement after the current one: the next of the stage, or the first of
\* the next stage of main()
NextPos ==
    IF op < Len(Pipeline[step].body) THEN <<step, op + 1>> ELSE <<step + 1, 1>>

\* what the statement just executed adds to the record of the chart installs
Recorded ==
    LET chart_list == ChartListOf(step) IN
    /\ installed' = IF chart_list # <<>> /\ CurOp = "cmd"
                    THEN Append(installed, chart_list[op]) ELSE installed
    /\ chart_waits' = IF chart_list # <<>> /\ CurOp = "wait"
                      THEN chart_waits + 1 ELSE chart_waits

\* control moves to the next statement; reaching a call of
\* k8s_wait_for_running_negate enters it
Advance ==
    LET p == NextPos IN
    /\ step' = p[1]
    /\ op' = p[2]
    /\ invoked' = IF p[1] # step /\ p[1] <= NSteps
                  THEN Append(invoked, p[1]) ELSE invoked
    /\ Recorded
    /\ IF p[1] <= NSteps /\ Pipeline[p[1]].body[p[2]] = "wait"
       THEN WaitEntry("negate", 0)
       ELSE WaitIdle

Stay == UNCHANGED << step, op, invoked, installed, chart_waits >>

NoteStatus(st) ==
    cmd_failed_step' = IF st # 0 /\ cmd_failed_step = 0 THEN step
                       ELSE cmd_failed_step

(***************************************************************************)
(* Statements of the stages                                                *)
(***************************************************************************)
\* a run_shell call of a stage
RunShell ==
    /\ Running /\ CurOp = "cmd"
    /\ \E st \in ExitStatuses :
         LET r == run_shell([status |-> st, stdout |-> PyStr(0)]) IN
         /\ NoteStatus(st)
         /\ exc' = r.exc
         /\ IF r.exc = NoExc THEN Advance ELSE Stay /\ UNCHANGED waitVars
    /\ UNCHANGED << argVars, helm_polls, reported, report, exit_code, teardown,
                    before_teardown >>

\* run_shell calls under a condition on the host (a firewalld process is found,
\* sysctl.conf lacks a line, a checkout exists, the version is 1.6.3)
OptBlock ==
    /\ Running /\ CurOp = "opt"
    /\ \/ UNCHANGED cmd_failed_step
       \/ \E st \in ExitStatuses : NoteStatus(st)
    /\ Advance
    /\ UNCHANGED << argVars, helm_polls, endVars, teardown, before_teardown >>

\* open(), os.environ[], os.makedirs(), curl(), untar(): returns or raises
PyOp ==
    /\ Running /\ CurOp = "py"
    /\ \/ Advance /\ UNCHANGED exc
       \/ exc' = Raise("Exception") /\ Stay /\ UNCHANGED waitVars
    /\ UNCHANGED << argVars, helm_polls, reported, report, exit_code, cmd_failed_step,
                    teardown, before_teardown >>

\* faulty variant: the flag is not consulted
CleanupRunsAlways(doit) == TRUE

\* k8s_cleanup(doit): whether the teardown commands run
CleanupRuns(doit) == doit = TRUE

Range(s) == {s[i] : i \in DOMAIN s}

k8s_cleanup ==
    /\ Running /\ CurOp = "cleanup"
    /\ IF CleanupRuns(cleanup)
       THEN /\ \E st \in ExitStatuses : NoteStatus(st)
            /\ teardown' = teardown + 1
            /\ before_teardown' = IF teardown = 0 THEN Range(invoked) \ {step}
                                  ELSE before_teardown
       ELSE UNCHANGED << cmd_failed_step, teardown, before_teardown >>
    /\ Advance
    /\ UNCHANGED << argVars, helm_polls, endVars >>

\* faulty variant: the stop is raised as an ordinary exception
CheckExitAborts(flag) ==
    IF flag = TRUE THEN Raise("AbortScriptException") ELSE NoExc

\* faulty variant: the stop ends the process with status 0
CheckExitZero(flag) == IF flag = TRUE THEN SystemExit(SUCCESS_EXIT_CODE) ELSE NoExc

\* k8s_check_exit(k8s_only): what the call raises
CheckExit(flag) == IF flag = TRUE THEN SystemExit(CHECK_EXIT_CODE) ELSE NoExc

k8s_check_exit ==
    /\ Running /\ CurOp = "exit"
    /\ exc' = CheckExit(k8s_only)
    /\ IF CheckExit(k8s_only) = NoExc THEN Advance ELSE Stay /\ UNCHANGED waitVars
    /\ UNCHANGED << argVars, helm_polls, reported, report, exit_code, cmd_failed_step,
                    teardown, before_teardown >>

\* numbers of .tgz files `ls | grep ".tgz" | wc -l` may count
ChartCounts == {0, HELM_IMAGES_MIN, HELM_IMAGES_MIN + 1}

\* kolla_verify_helm_images: what it raises on the count printed
VerifyImages(out) ==
    IF PyInt(out) > HELM_IMAGES_MIN THEN NoExc ELSE SystemExit(VERIFY_EXIT_CODE)

kolla_verify_helm_images ==
    /\ Running /\ CurOp = "verify"
    /\ \E n \in ChartCounts :
         LET out == run_shell(CountProbe(TRUE, n)).out IN
         /\ exc' = VerifyImages(out)
         /\ IF VerifyImages(out) = NoExc THEN Advance
            ELSE Stay /\ UNCHANGED waitVars
    /\ UNCHANGED << argVars, helm_polls, reported, report, exit_code, cmd_failed_step,
                    teardown, before_teardown >>

\* one iteration of the helm version loop of kolla_install_deploy_helm
HelmVersionLoop ==
    /\ Running /\ CurOp = "helmloop"
    /\ \E n \in 0..HELM_VERSION_LINES :
         LET out == run_shell(CountProbe(TRUE, n)).out IN
         IF PyInt(out) = HELM_VERSION_LINES
         THEN Advance /\ helm_polls' = 0
         ELSE /\ helm_polls < MaxHelmPolls
              /\ helm_polls' = helm_polls + 1
              /\ Stay /\ UNCHANGED waitVars
    /\ UNCHANGED << argVars, endVars, cmd_failed_step, teardown, before_teardown >>

(***************************************************************************)
(* The wait functions.  Each action is one iteration of the `while True`   *)
(* loop: the probe, the decision, and on a retry the sleep.                *)
(***************************************************************************)
\* how far the model follows a wait
Followed == IF step = 0 THEN elapsed_time < MaxElapsed ELSE probes < MaxProbesMain

WaitActive(kind) ==
    /\ wkind = kind /\ wstatus = "polling"
    /\ exc = NoExc /\ exit_code = NoExit
    /\ Followed

\* what every probe records
Probed(ok, out) ==
    /\ probes' = probes + 1
    /\ probe_failed' = ~ok
    /\ last_out' = out
    /\ prev_out' = last_out
    /\ decreasing' = /\ decreasing
                      /\ ~IntRaises(out)
                      /\ (probes = 0 \/ PyInt(out) < PyInt(last_out))

\* how the iteration ends: on a retry the progress line is printed or not, and
\* time.sleep(RETRY_INTERVAL) is called; otherwise neither happens
Looped(retry, printed) ==
    /\ progress' = (retry /\ printed)
    /\ sleeps' = IF retry THEN sleeps + 1 ELSE sleeps

\* the probes a wait may see: kubectl answers with n matching lines, kubectl
\* errors, or the pipeline prints nothing
CountProbes ==
    {[ok |-> k, p |-> CountProbe(k, n)] :
        k \in BOOLEAN, n \in Pods} \cup {[ok |-> TRUE, p |-> EmptyProbe]}

\* int(out) raised ValueError inside a wait function
IntFailed ==
    /\ wstatus' = "raised"
    /\ exc' = Raise("ValueError")
    /\ UNCHANGED << elapsed_time, prev_not_running >>

\* faulty variant: one pod that is not Running is let through
NegateDecisionOffByOne(not_running, elapsed) ==
    IF PyInt(not_running) > 1 THEN "retry" ELSE "ok"

\* k8s_wait_for_running_negate, the decision on not_running: the `if` retries,
\* the `else` returns; both leave the loop body, so the timeout test below them
\* is never reached
NegateDecision(not_running, elapsed) ==
    IF PyInt(not_running) # 0 THEN "retry" ELSE "ok"

k8s_wait_for_running_negate ==
    /\ WaitActive("negate")
    /\ \E pr \in CountProbes :
         LET not_running == run_shell(pr.p).out
             d == NegateDecision(not_running, elapsed_time) IN
         /\ Probed(pr.ok, not_running)
         /\ Looped(~IntRaises(not_running) /\ d = "retry",
                   PyNe(prev_not_running, not_running))
         /\ IF IntRaises(not_running) THEN IntFailed
            ELSE IF d = "retry"
            THEN /\ elapsed_time' = elapsed_time + NEGATE_RETRY_INTERVAL
                 /\ prev_not_running' = not_running
                 /\ UNCHANGED << wstatus, exc >>
            ELSE IF d = "ok"
            THEN /\ wstatus' = "ok"
                 /\ UNCHANGED << elapsed_time, prev_not_running, exc >>
            ELSE /\ wstatus' = "abort"
                 /\ exc' = Raise("AbortScriptException")
                 /\ UNCHANGED << elapsed_time, prev_not_running >>
    /\ UNCHANGED << argVars, step, op, wkind, number, helm_polls, reported,
                    report, exit_code, invoked, installed, chart_waits,
                    cmd_failed_step, teardown,
                    before_teardown >>

\* faulty variant: > for >=
RunningDecisionStrict(running, n, elapsed) ==
    IF PyInt(running) > n THEN "ok"
    ELSE IF elapsed < RUNNING_TIMEOUT THEN "retry"
    ELSE "abort"

\* faulty variant: <= for <, one more retry at the deadline
RunningDecisionLate(running, n, elapsed) ==
    IF PyInt(running) >= n THEN "ok"
    ELSE IF elapsed <= RUNNING_TIMEOUT THEN "retry"
    ELSE "abort"

\* k8s_wait_for_running(number, namespace), the decision on running
RunningDecision(running, n, elapsed) ==
    IF PyInt(running) >= n THEN "ok"
    ELSE IF elapsed < RUNNING_TIMEOUT THEN "retry"
    ELSE "abort"

k8s_wait_for_running ==
    /\ WaitActive("running")
    /\ \E pr \in CountProbes :
         LET running == run_shell(pr.p).out
             d == RunningDecision(running, number, elapsed_time) IN
         /\ Probed(pr.ok, running)
         /\ Looped(~IntRaises(running) /\ d = "retry", TRUE)
         /\ IF IntRaises(running) THEN IntFailed
            ELSE IF d = "retry"
            THEN /\ elapsed_time' = elapsed_time + RUNNING_RETRY_INTERVAL
                 /\ UNCHANGED << wstatus, exc >>
            ELSE IF d = "ok"
            THEN wstatus' = "ok" /\ UNCHANGED << elapsed_time, exc >>
            ELSE /\ wstatus' = "abort"
                 /\ exc' = Raise("AbortScriptException")
                 /\ UNCHANGED elapsed_time
    /\ UNCHANGED << argVars, step, op, wkind, number, prev_not_running,
                    helm_polls, reported, report, exit_code, invoked,
                    installed, chart_waits, cmd_failed_step,
                    teardown, before_teardown >>

\* k8s_wait_for_kube_system, the decision on nlines = len(pod_status.splitlines())
KubeSystemDecision(nlines, elapsed) ==
    IF nlines = KUBE_SYSTEM_PODS THEN "ok"
    ELSE IF elapsed < KUBE_SYSTEM_TIMEOUT THEN "retry"
    ELSE "abort"

k8s_wait_for_kube_system ==
    /\ WaitActive("kube_system")
    /\ \E ok \in BOOLEAN : \E n \in (IF ok THEN Pods ELSE {0}) :
         \* pod_status is kept as the count of its lines
         LET pod_status == run_shell(CountProbe(ok, n)).out
             nlines == PyInt(pod_status)
             d == KubeSystemDecision(nlines, elapsed_time) IN
         /\ Probed(ok, pod_status)
         /\ Looped(d = "retry", elapsed_time # 0)
         /\ IF d = "retry"
            THEN /\ elapsed_time' = elapsed_time + KUBE_SYSTEM_RETRY_INTERVAL
                 /\ UNCHANGED << wstatus, exc >>
            ELSE IF d = "ok"
            THEN wstatus' = "ok" /\ UNCHANGED << elapsed_time, exc >>
            ELSE /\ wstatus' = "abort"
                 /\ exc' = Raise("AbortScriptException")
                 /\ UNCHANGED elapsed_time
    /\ UNCHANGED << argVars, step, op, wkind, number, prev_not_running,
                    helm_polls, reported, report, exit_code, invoked,
                    installed, chart_waits, cmd_failed_step,
                    teardown, before_teardown >>

\* k8s_wait_for_running_negate has returned to its caller in main()
WaitReturn ==
    /\ Running /\ CurOp = "wait" /\ wstatus = "ok"
    /\ Advance
    /\ UNCHANGED << argVars, helm_polls, endVars, cmd_failed_step, teardown,
                    before_teardown >>

(***************************************************************************)
(* The end of main()                                                       *)
(***************************************************************************)
\* nothing printed yet
NoReport == [header |-> "", type |-> "none"]

\* print('Exception caught:'); print(sys.exc_info()): the type and the value of
\* the exception, and the traceback object shown by its address only
ExcInfo(e) == [header |-> "Exception caught:", type |-> e.type]

\* `except Exception:` prints the exception and raises it again (a bare raise:
\* the same exception with its traceback)
ExceptHandler ==
    /\ InMain /\ IsException(exc) /\ ~reported /\ exit_code = NoExit
    /\ reported' = TRUE
    /\ report' = ExcInfo(exc)
    /\ UNCHANGED << argVars, step, op, waitVars, helm_polls, exc, exit_code,
                    invoked, installed, chart_waits, cmd_failed_step, teardown,
                    before_teardown >>

\* the exit status the interpreter ends with
ExitCode ==
    IF exc.type = "SystemExit" THEN exc.code
    ELSE IF exc # NoExc THEN UNCAUGHT_EXIT_CODE
    ELSE SUCCESS_EXIT_CODE

ProcessExit ==
    /\ step # 0 /\ exit_code = NoExit
    /\ \/ step = NSteps + 1 /\ exc = NoExc
       \/ exc.type = "SystemExit"
       \/ IsException(exc) /\ reported
    /\ exit_code' = ExitCode
    /\ UNCHANGED << argVars, step, op, waitVars, helm_polls, exc, reported,
                    report, invoked, installed, chart_waits, cmd_failed_step,
                    teardown, before_teardown >>

(***************************************************************************)
(* Specifications                                                          *)
(***************************************************************************)
InitCommon ==
    /\ wstatus \in {"idle", "polling"}
    /\ elapsed_time = 0 /\ prev_not_running = PyIntLit(0) /\ last_out = NoOut
    /\ probes = 0 /\ probe_failed = FALSE /\ decreasing = TRUE
    /\ prev_out = NoOut /\ progress = FALSE /\ sleeps = 0
    /\ helm_polls = 0
    /\ exc = NoExc /\ reported = FALSE /\ report = NoReport
    /\ exit_code = NoExit
    /\ cmd_failed_step = 0 /\ teardown = 0 /\ before_teardown = {}

\* main() has parsed its arguments and enters the try block
Init ==
    /\ cleanup \in BOOLEAN /\ k8s_only \in BOOLEAN
    /\ step = 1 /\ op = 1 /\ invoked = <<1>>
    /\ installed = <<>> /\ chart_waits = 0
    /\ wkind = "none" /\ wstatus = "idle" /\ number = 0
    /\ InitCommon

Next ==
    \/ RunShell
    \/ OptBlock
    \/ PyOp
    \/ k8s_cleanup
    \/ k8s_check_exit
    \/ kolla_verify_helm_images
    \/ HelmVersionLoop
    \/ k8s_wait_for_running_negate
    \/ WaitReturn
    \/ ExceptHandler
    \/ ProcessExit

Spec == Init /\ [][Next]_vars

\* a wait function has been called and is about to probe for the first time
InitWait ==
    /\ cleanup = FALSE /\ k8s_only = FALSE
    /\ step = 0 /\ op = 0 /\ invoked = <<>>
    /\ installed = <<>> /\ chart_waits = 0
    /\ wkind \in {"negate", "running", "kube_system"}
    /\ wstatus = "polling"
    /\ number \in (IF wkind = "running" THEN 1..MaxNumber ELSE {0})
    /\ InitCommon

NextWait ==
    \/ k8s_wait_for_running_negate
    \/ k8s_wait_for_running
    \/ k8s_wait_for_kube_system

SpecWait == InitWait /\ [][NextWait]_vars

(***************************************************************************)
(* Properties                                                              *)
(***************************************************************************)
CleanupStep == StepOf("k8s_cleanup")
ToolsStep == StepOf("k8s_install_tools")
CheckExitStep == StepOf("k8s_check_exit")
Done == step = NSteps + 1

Timeout(kind) ==
    IF kind = "negate" THEN NEGATE_TIMEOUT
    ELSE IF kind = "running" THEN RUNNING_TIMEOUT
    ELSE KUBE_SYSTEM_TIMEOUT

Interval(kind) ==
    IF kind = "negate" THEN NEGATE_RETRY_INTERVAL
    ELSE IF kind = "running" THEN RUNNING_RETRY_INTERVAL
    ELSE KUBE_SYSTEM_RETRY_INTERVAL

\* C1: once a stage has failed (one of its commands exited non-zero, or it
\* raised), no stage after it in the order of main() is ever called.
C1_NoStepAfterFailure ==
    /\ cmd_failed_step # 0 => \A i \in Range(invoked) : i <= cmd_failed_step
    /\ exc # NoExc => \A i \in Range(invoked) : i <= step

\* C2: the stages are called one at a time in the order of main(); control
\* leaves a stage only from its last statement and only to the next stage, and
\* it moves past a call of k8s_wait_for_running_negate only when that wait has
\* returned, having observed zero pods that are not Running.
C2_StrictOrder ==
    /\ [](invoked = [i \in 1..(IF Done THEN NSteps ELSE step) |-> i])
    /\ [](wstatus # "idle" => CurOp = "wait")
    /\ [][ /\ step' # step =>
                /\ step' = step + 1 /\ op' = 1
                /\ op = Len(Pipeline[step].body)
                /\ exc = NoExc /\ exc' = NoExc
           /\ (CurOp = "wait" /\ <<step, op>>' # <<step, op>>) =>
                (wstatus = "ok" /\ PyInt(last_out) = 0) ]_vars

\* C2 witness: the wait after the credential load has returned and
\* k8s_deploy_canal_sdn has begun
C2_Witness ==
    /\ step = StepOf("k8s_deploy_canal_sdn") /\ op = 1
    /\ exc = NoExc

\* C3: a wait whose probes never satisfy it raises, with elapsed_time between
\* its timeout and its timeout plus one interval; so no wait is still polling
\* with more than that elapsed.
C3_TimeoutBounded ==
    /\ wstatus = "polling" => elapsed_time <= Timeout(wkind) + Interval(wkind)
    /\ wstatus = "abort" =>
         /\ elapsed_time >= Timeout(wkind)
         /\ elapsed_time <= Timeout(wkind) + Interval(wkind)

\* C4: k8s_wait_for_running_negate, on strictly decreasing counts observed
\* within the timeout, never raises and returns at the probe that first observes
\* 0: it has returned exactly when the last count is 0, after one sleep for each
\* earlier probe.
C4_NegateReturnsAtZero ==
    (wkind = "negate" /\ decreasing /\ probes * NEGATE_RETRY_INTERVAL < NEGATE_TIMEOUT)
    => /\ wstatus # "abort" /\ exc = NoExc
       /\ wstatus = "ok" =>
            /\ PyInt(last_out) = 0
            /\ elapsed_time = (probes - 1) * NEGATE_RETRY_INTERVAL
       /\ (wstatus = "polling" /\ probes > 0) =>
            /\ PyInt(last_out) # 0
            /\ elapsed_time = probes * NEGATE_RETRY_INTERVAL

\* C4 witness: four strictly decreasing counts ending in 0, returned at the
\* fourth probe
C4_Witness ==
    /\ wkind = "negate" /\ wstatus = "ok" /\ decreasing
    /\ probes = 4 /\ prev_not_running = PyStr(1) /\ last_out = PyStr(0)

\* C5: k8s_wait_for_running returns at the first probe whose Running count is
\* >= number, with elapsed_time (probes - 1) intervals: it has returned only on
\* such a count, and while it polls or when it raises the last count was below
\* number.
C5_RunningReturnsAtFirstHit ==
    wkind = "running"
    => /\ wstatus = "ok" =>
            /\ PyInt(last_out) >= number
            /\ elapsed_time = (probes - 1) * RUNNING_RETRY_INTERVAL
       /\ (wstatus = "polling" /\ probes > 0) =>
            /\ PyInt(last_out) < number
            /\ elapsed_time = probes * RUNNING_RETRY_INTERVAL
       /\ wstatus = "abort" => PyInt(last_out) < number

\* C5 witness: target 6 met by a count of 6 on the 3rd probe, two intervals
\* elapsed
C5_Witness ==
    /\ wkind = "running" /\ wstatus = "ok" /\ number = 6
    /\ probes = 3 /\ last_out = PyStr(6)
    /\ elapsed_time = 2 * RUNNING_RETRY_INTERVAL

\* C6: when a command has exited non-zero, run_shell has failed: an exception
\* is propagating.
C6_NonZeroExitRaises == cmd_failed_step # 0 => exc # NoExc

\* C7 as stated: without the flag the teardown never runs; with it the teardown
\* runs exactly once, before any other stage has been called.
C7_CleanupBeforeAnyStep ==
    /\ ~cleanup => teardown = 0
    /\ cleanup => teardown = (IF step > CleanupStep THEN 1 ELSE 0)
    /\ before_teardown = {}

\* C7 amended: without the flag the teardown never runs; with it the teardown
\* runs exactly once, after k8s_install_tools and before every other stage.
C7_CleanupAfterToolsOnly ==
    /\ ~cleanup => teardown = 0
    /\ cleanup => teardown = (IF step > CleanupStep THEN 1 ELSE 0)
    /\ before_teardown = (IF teardown > 0 THEN {ToolsStep} ELSE {})

\* C7 witness: the teardown has run and the run went on
C7_Witness == cleanup /\ teardown = 1 /\ step > CleanupStep

\* C8: a probe in which kubectl errored counts as not ready: the wait has not
\* returned on it, and has raised on it only at its deadline.
C8_FailedProbeIsNotReady ==
    probe_failed
    => /\ wstatus # "ok"
       /\ wstatus = "abort" => elapsed_time >= Timeout(wkind)

\* C9: with the stop flag, the run ends at k8s_check_exit outside the except
\* clause of main(), after every stage before it has been called and left in
\* order, and no later stage is called; without the flag k8s_check_exit raises
\* nothing.
C9_EarlyExit ==
    /\ k8s_only =>
         /\ step <= CheckExitStep
         /\ \A i \in Range(invoked) : i <= CheckExitStep
         /\ (step = CheckExitStep /\ exc # NoExc) =>
              /\ exc.type = "SystemExit" /\ ~reported
              /\ invoked = [i \in 1..CheckExitStep |-> i]
    /\ (~k8s_only /\ step = CheckExitStep) => (exc = NoExc /\ exit_code = NoExit)

\* C9 witness: the run has ended at k8s_check_exit
C9_Witness ==
    /\ k8s_only /\ step = CheckExitStep /\ exc.type = "SystemExit"
    /\ exit_code # NoExit

\* C10: the process ends with 0 exactly when the last stage has returned, and
\* with 1 when it ends on the early stop or on an exception; it ends with
\* nothing else.
C10_ExitCode ==
    exit_code # NoExit
    => /\ exit_code \in {0, 1}
       /\ exit_code = 0 <=> (Done /\ exc = NoExc)
       /\ exit_code = 1 <=> (~Done /\ exc # NoExc)

\* C10 witness: each way of ending has happened
C10_WitnessCompleted == Done /\ exit_code = 0

\* the stage a report or an exception message names, 0 when it names none
StageNamed(r) == IF "stage" \in DOMAIN r THEN r.stage ELSE 0

\* C11: when a failing stage has aborted the run, what the except clause of
\* main() printed names that stage, and so does the exception raised again.
C11_ReportNamesStep ==
    (IsException(exc) /\ reported)
    => /\ StageNamed(report) = step
       /\ exc.tb = step

\* C12: every run that a failing stage has ended (any ending on an exception
\* other than the requested stop at k8s_check_exit) went through the except
\* clause of main() and was reported there.
C12_HandlerIsSinglePoint ==
    (exit_code # NoExit /\ exc # NoExc /\ step # CheckExitStep) => reported

\* C13: a probe whose output is no number is an ordinary observation: the wait
\* raises nothing on it before its deadline.
C13_MalformedCountTolerated ==
    (wkind # "none" /\ probes > 0 /\ IntRaises(last_out))
    => (exc = NoExc \/ elapsed_time >= Timeout(wkind))

\* C14: in every wait function a progress line is printed only when the value
\* just observed differs from the one observed by the probe before.
C14_ProgressOnlyOnChange ==
    (wkind # "none" /\ probes >= 2 /\ progress) => last_out # prev_out

\* C15: k8s_wait_for_kube_system is satisfied by six or more kube-system pods:
\* while it is still polling, every count it has seen was below six.
C15_KubeSystemAtLeastSix ==
    (wkind = "kube_system" /\ wstatus = "polling" /\ probes > 0)
    => PyInt(last_out) < KUBE_SYSTEM_PODS

\* C16: a k8s_wait_for_running_negate whose count never reaches zero ends
\* after a bounded number of probes: it is never found polling after more
\* probes than its TIMEOUT allows at one per RETRY_INTERVAL.
C16_NegateProbesBounded ==
    (wkind = "negate" /\ wstatus = "polling")
    => probes <= NEGATE_TIMEOUT \div NEGATE_RETRY_INTERVAL + 1

\* every chart main() installs, in the order of the lists
AllCharts == ChartLists[1] \o ChartLists[2] \o ChartLists[3] \o ChartLists[4]

\* the number of charts in the first k lists
ChartsUpTo(k) ==
    Len(SelectSeq(AllCharts,
                  LAMBDA c : \E g \in 1..Len(ChartLists) :
                      g <= k /\ c \in Range(ChartLists[g])))

\* C17: the charts are installed one by one in the order of the lists, each
\* list is followed by exactly one wait, and no chart of a list is installed
\* before the wait that follows the list before it has returned.
C17_ChartGroupsInOrder ==
    /\ Len(installed) <= Len(AllCharts)
    /\ \A i \in 1..Len(installed) : installed[i] = AllCharts[i]
    /\ chart_waits <= Len(ChartLists)
    /\ ChartsUpTo(chart_waits) <= Len(installed)
    /\ Len(installed) <= ChartsUpTo(chart_waits + 1)

\* C17 witness: all four lists are installed and each was followed by a wait
\* that returned.
C17_Witness ==
    /\ installed = AllCharts
    /\ chart_waits = Len(ChartLists)

\* C18: in k8s_wait_for_running elapsed_time is RETRY_INTERVAL times the sleeps
\* made and never exceeds TIMEOUT; a probe is decided with elapsed_time at
\* RETRY_INTERVAL times the probes before it, so after a retry (probe and
\* sleep) the sleeps equal the probes, and a wait that has left the loop made
\* one sleep less than probes, none after the last probe; a wait that raised
\* AbortScriptException made TIMEOUT/RETRY_INTERVAL + 1 probes and
\* TIMEOUT/RETRY_INTERVAL sleeps.
C18_ElapsedTimeAccounting ==
    wkind = "running"
    => /\ elapsed_time = RUNNING_RETRY_INTERVAL * sleeps
       /\ elapsed_time <= RUNNING_TIMEOUT
       /\ wstatus = "polling" => sleeps = probes
       /\ wstatus \in {"ok", "abort", "raised"} => sleeps = probes - 1
       /\ wstatus = "abort" =>
            /\ probes = RUNNING_TIMEOUT \div RUNNING_RETRY_INTERVAL + 1
            /\ sleeps = RUNNING_TIMEOUT \div RUNNING_RETRY_INTERVAL
            /\ elapsed_time = RUNNING_TIMEOUT

\* C18 witness: a k8s_wait_for_running that was never satisfied has raised
\* after 101 probes and 100 sleeps.
C18_Witness ==
    /\ wkind = "running" /\ wstatus = "abort"
    /\ probes = RUNNING_TIMEOUT \div RUNNING_RETRY_INTERVAL + 1
    /\ sleeps = probes - 1
====
